---- MODULE Spec2Model ----
(***************************************************************************)
(* Model of purchased-parts/dk_pipeline.py: the Digi-Key purchase          *)
(* reconciliation pipeline (discovery of base/delta files, product lookup  *)
(* with base precedence, row projection, schema mutation, the three        *)
(* assertions and the write step).                                         *)
(*                                                                         *)
(* Python values are modelled as follows.                                  *)
(*   None            the string None                                       *)
(*   a missing key   the string Missing (dict.get(k) gives None,           *)
(*                   dict.get(k, dflt) gives dflt)                         *)
(*   null object     NoneObj, where the value is otherwise a JSON object   *)
(*                   (TLC does not compare a record with a string)         *)
(*   list            a sequence                                            *)
(*   dict (ordered)  a sequence of <<key, value>> pairs with distinct keys *)
(*   object identity a reference <<"base" | "delta", index>> into the      *)
(*                   product document the object was loaded from           *)
(***************************************************************************)
EXTENDS Naturals, Integers, Sequences, FiniteSets, TLC

VARIABLES
    pc,                 \* position of the operation under check
    doc, kind,          \* _classify_json_doc: its argument and its result
    products_base, products_delta, prod_by_dk,  \* build_prod_by_dk
    invoices_base, invoices_delta,              \* run_pipeline: the loaded invoices
    delta_only_keys, base_rows, merged_rows,    \* run_pipeline: steps 2 and 4
    schema_mutations, schema,   \* apply_schema_mutations: mut and schema
    df_out, schema_out,         \* apply_schema_mutations: df and the result
    json_files, pairs,  \* discover_json_base_delta: the *.json files, its result
    csv_files, csv_pair,\* discover_csv_pair: the *.csv files, its result
    written,            \* the output files of OUT_DIR written so far
    delta_alt, rows_alt \* a second run of steps 3-4 on the same base: the other
                        \* delta product set, and the rows of the first run

vars == <<pc, doc, kind, products_base, products_delta, prod_by_dk,
          invoices_base, invoices_delta, delta_only_keys, base_rows, merged_rows,
          schema_mutations, schema, df_out, schema_out,
          json_files, pairs, csv_files, csv_pair, written,
          delta_alt, rows_alt>>

None == "<None>"
Missing == "<missing>"
NoneObj == [null |-> TRUE]

\* dict.get(key): None for a missing key.
Get(v) == IF v = Missing THEN None ELSE v
\* dict.get(key, dflt)
GetD(v, dflt) == IF v = Missing THEN dflt ELSE v
\* Python truthiness of a str-or-None value.
Truthy(v) == v # None /\ v # Missing /\ v # ""

Range(s) == {s[i] : i \in 1..Len(s)}

\* Sequences over S of length at most n.
SeqUpTo(S, n) == UNION {[1..k -> S] : k \in 0..n}

(***************************************************************************)
(* Bounds                                                                  *)
(***************************************************************************)
MaxDocLen == 2      \* elements of a JSON list given to the classifier
MaxProds == 2       \* products of one product document
MaxOrders == 2      \* orders of one invoice document
MaxPromote == 2     \* entries of promote_other_params
MaxFiles == 3       \* product JSON files in the input directory
MaxCsv == 3         \* CSV files in the input directory

(***************************************************************************)
(* Document Classifier: _classify_json_doc                                 *)
(***************************************************************************)
KeyNames == {"invoiceDetails", "invoices", "boxes",
             "productVariations", "parameters", "description"}

\* A list element: a dict (with its key set) or something else.
FirstElems == {[isDict |-> TRUE, keys |-> K] : K \in SUBSET KeyNames}
                \cup {[isDict |-> FALSE, keys |-> {}]}
RestElems == {[isDict |-> FALSE, keys |-> {}],
              [isDict |-> TRUE, keys |-> {}],
              [isDict |-> TRUE, keys |-> {"invoiceDetails"}],
              [isDict |-> TRUE, keys |-> {"parameters"}]}

\* A parsed JSON value: a list of elements, or a value that is no list.
JsonDocs ==
    {[isList |-> FALSE, elems |-> <<>>]} \cup
    {[isList |-> TRUE, elems |-> e] :
        e \in {<<>>} \cup
              {<<f>> \o r : f \in FirstElems, r \in SeqUpTo(RestElems, MaxDocLen - 1)}}

\* The classifier with the two tests in the other order.
classify_product_first(d) ==
    IF d.isList /\ d.elems # <<>> /\ d.elems[1].isDict
    THEN LET e0 == d.elems[1] IN
         IF "productVariations" \in e0.keys \/ "parameters" \in e0.keys
         THEN "product"
         ELSE IF "invoiceDetails" \in e0.keys \/ "invoices" \in e0.keys
                 \/ "boxes" \in e0.keys
         THEN "invoice"
         ELSE "unknown"
    ELSE "unknown"

_classify_json_doc(d) ==
    IF d.isList /\ d.elems # <<>> /\ d.elems[1].isDict
    THEN LET e0 == d.elems[1] IN
         IF "invoiceDetails" \in e0.keys \/ "invoices" \in e0.keys
            \/ "boxes" \in e0.keys
         THEN "invoice"
         ELSE IF "productVariations" \in e0.keys \/ "parameters" \in e0.keys
         THEN "product"
         ELSE "unknown"
    ELSE "unknown"

(***************************************************************************)
(* Product documents.  The documents the model draws carry every list-     *)
(* valued key (productVariations, parameters, childCategories, invoices,   *)
(* invoiceDetails), so x.get(key, []) is the list itself.                  *)
(***************************************************************************)
\* A JSON object with the one key "name" (or "status"), or null.
Named(n) == IF n = None THEN NoneObj ELSE [name |-> n]

Variation(dk, pkg) == [digiKeyProductNumber |-> dk, packageType |-> Named(pkg)]

Product(variations, category, parameters, series, status) ==
    [productVariations |-> variations, category |-> category,
     parameters |-> parameters, series |-> Named(series),
     productStatus |-> [status |-> status]]

Param(text, value) == [parameterText |-> text, valueText |-> value]

Category(name, children) == [name |-> name, childCategories |-> children]

\* The vendor part numbers of the variation lists drawn for the lookup.
VariationLists ==
    {<<>>,
     <<Variation("DK1", "Tape")>>,
     <<Variation("DK2", "Reel")>>,
     <<Variation("", "Tape"), Variation("DK1", "Reel")>>,
     <<Variation("DK1", "Tape"), Variation("DK2", "Reel")>>,
     <<Variation(Missing, "Tape"), Variation("DK2", "Tape")>>}

LookupProducts ==
    {Product(v, NoneObj, <<>>, s, "Active") : v \in VariationLists, s \in {"S"}}

LookupDocs == SeqUpTo(LookupProducts, MaxProds)

(***************************************************************************)
(* Product Lookup Builder: build_prod_by_dk                                *)
(* The lookup maps a vendor part number to a reference to the product      *)
(* object: <<"base", i>> is products_base[i], <<"delta", i>> is            *)
(* products_delta[i].                                                      *)
(***************************************************************************)
EmptyLut == [k \in {} |-> <<>>]

\* lut[dk] = p without the "not in lut" test.
LutInsertOverwrite(lut, dkv, ref) ==
    LET dk == Get(dkv) IN
    IF Truthy(dk)
    THEN [k \in DOMAIN lut \cup {dk} |-> IF k = dk THEN ref ELSE lut[k]]
    ELSE lut

\* dk = v.get("digiKeyProductNumber"); if dk and dk not in lut: lut[dk] = p
LutInsert(lut, dkv, ref) ==
    LET dk == Get(dkv) IN
    IF Truthy(dk) /\ dk \notin DOMAIN lut
    THEN [k \in DOMAIN lut \cup {dk} |-> IF k = dk THEN ref ELSE lut[k]]
    ELSE lut

\* for v in p.get("productVariations", []): ...
RECURSIVE LutAddVariations(_, _, _, _)
LutAddVariations(lut, variations, j, ref) ==
    IF j > Len(variations) THEN lut
    ELSE LutAddVariations(
            LutInsert(lut, variations[j].digiKeyProductNumber, ref),
            variations, j + 1, ref)

\* for p in products: ...
RECURSIVE LutAddProducts(_, _, _, _)
LutAddProducts(lut, products, i, tag) ==
    IF i > Len(products) THEN lut
    ELSE LutAddProducts(
            LutAddVariations(lut, products[i].productVariations, 1,
                             <<tag, i>>),
            products, i + 1, tag)

\* The lookup built with the delta products inserted first.
build_prod_by_dk_delta_first(base, delta) ==
    LutAddProducts(LutAddProducts(EmptyLut, delta, 1, "delta"), base, 1, "base")

build_prod_by_dk(base, delta) ==
    LutAddProducts(LutAddProducts(EmptyLut, base, 1, "base"), delta, 1, "delta")

\* The product object a reference stands for.
Deref(ref, base, delta) ==
    IF ref[1] = "base" THEN base[ref[2]] ELSE delta[ref[2]]

\* The non-empty vendor part numbers of a product.
DkKeysOf(p) ==
    {Get(v.digiKeyProductNumber) : v \in Range(p.productVariations)}
        \ {None, ""}

DkKeysOfDoc(products) == UNION {DkKeysOf(products[i]) : i \in 1..Len(products)}

\* The first product of a document carrying the key.
FirstCarrier(products, dk) ==
    CHOOSE i \in 1..Len(products) :
        /\ dk \in DkKeysOf(products[i])
        /\ \A j \in 1..(i - 1) : dk \notin DkKeysOf(products[j])

(***************************************************************************)
(* Invoice documents and Identity Keying                                   *)
(***************************************************************************)
Detail(inv, det, dk, desc) ==
    [invoiceId |-> inv, detailId |-> det, digiKeyProductNumber |-> dk,
     manufacturerProductNumber |-> "MPN", quantityShipped |-> "1",
     extendedPrice |-> "2.50", quantityInitial |-> "1", description |-> desc,
     manufacturerName |-> "Mfr", formattedUnitPrice |-> "2.50",
     formattedExtendedPrice |-> "2.50"]

Header(inv, date) == [invoiceId |-> inv, dateShipped |-> date]

Order(headers, details) == [invoices |-> headers, invoiceDetails |-> details]

\* The identity key of a line item: (invoiceId, detailId) when both are
\* present, else the 5-tuple.
DetailKey(d) ==
    LET inv_id == Get(d.invoiceId)
        det_id == Get(d.detailId)
    IN IF inv_id # None /\ det_id # None
       THEN <<inv_id, det_id>>
       ELSE <<inv_id, Get(d.digiKeyProductNumber), Get(d.manufacturerProductNumber),
              Get(d.quantityShipped), Get(d.extendedPrice)>>

RECURSIVE Flatten(_)
Flatten(ss) == IF ss = <<>> THEN <<>> ELSE Head(ss) \o Flatten(Tail(ss))

\* The keys in generator order: per order, per line item.
iter_detail_keys(invoice_doc) ==
    Flatten([o \in 1..Len(invoice_doc) |->
        LET ds == invoice_doc[o].invoiceDetails
        IN [i \in 1..Len(ds) |-> DetailKey(ds[i])]])

\* The non-empty vendor part numbers in generator order.
iter_prod_dk_keys(products_doc) ==
    Flatten([p \in 1..Len(products_doc) |->
        LET vs == products_doc[p].productVariations
        IN SelectSeq([j \in 1..Len(vs) |-> Get(vs[j].digiKeyProductNumber)],
                     Truthy)])

(***************************************************************************)
(* sorted(): the stable sort of 1..n under a strict weak order on indices, *)
(* given as the set lt of the pairs <<i, j>> with key(i) < key(j)          *)
(***************************************************************************)
Perms(n) == {p \in [1..n -> 1..n] : \A i, j \in 1..n : i # j => p[i] # p[j]}

SortedIdx(n, lt) ==
    CHOOSE p \in Perms(n) :
        \A i, j \in 1..n : i < j =>
            /\ <<p[j], p[i]>> \notin lt
            /\ (<<p[i], p[j]>> \notin lt => p[i] < p[j])

\* The pairs of 1..n x 1..n.
Pairs(n) == (1..n) \X (1..n)

(***************************************************************************)
(* Base/Delta Selector: discover_json_base_delta                           *)
(* A file is [path, size, doc]: path is the rank of its name (paths are    *)
(* compared when two candidates tie), size its byte size, doc what         *)
(* json.load gives: [type |-> "invoices" | "products", items |-> list], or *)
(* type "bad" when the file does not parse.                                *)
(***************************************************************************)
File(path, size, d) == [path |-> path, size |-> size, doc |-> d]
InvoicesDoc(orders) == [type |-> "invoices", items |-> orders]
ProductsDoc(products) == [type |-> "products", items |-> products]
BadDoc == [type |-> "bad", items |-> <<>>]

\* The keys a JSON object holds.
PresentKeys(rec) == DOMAIN rec

\* The parsed document as the classifier sees it.
DocView(d) ==
    [isList |-> TRUE,
     elems |-> [i \in 1..Len(d.items) |->
                    [isDict |-> TRUE, keys |-> PresentKeys(d.items[i])]]]

\* try: doc = _load_json(p) except: unknown; else _classify_json_doc(doc)
FileKind(f) ==
    IF f.doc.type = "bad" THEN "unknown" ELSE _classify_json_doc(DocView(f.doc))

FileKeys(k, f) ==
    IF k = "invoice" THEN Range(iter_detail_keys(f.doc.items))
    ELSE Range(iter_prod_dk_keys(f.doc.items))

\* overlap(path) = len(base_keys & delta_keys)
overlap(k, f, delta) == Cardinality(FileKeys(k, f) \cap FileKeys(k, delta))

\* The order of the tuples (overlap(p), _file_size(p), p): the tie-breaker
\* taken on the size itself, so that the smaller file comes first.
ScoredLessSmallerFirst(k, a, b, delta) ==
    LET oa == overlap(k, a, delta)
        ob == overlap(k, b, delta)
    IN \/ oa < ob
       \/ oa = ob /\ a.size < b.size
       \/ oa = ob /\ a.size = b.size /\ a.path < b.path

\* The order of the tuples (overlap(p), -_file_size(p), p).
ScoredLess(k, a, b, delta) ==
    LET oa == overlap(k, a, delta)
        ob == overlap(k, b, delta)
    IN \/ oa < ob
       \/ oa = ob /\ a.size > b.size
       \/ oa = ob /\ a.size = b.size /\ a.path < b.path

\* The body of "for kind in (invoice, product)" for a group of >= 2 paths.
SelectBaseDelta(k, paths) ==
    LET bySize == SortedIdx(Len(paths), {q \in Pairs(Len(paths)) :
                                            paths[q[1]].size < paths[q[2]].size})
        paths_sorted == [i \in 1..Len(paths) |-> paths[bySize[i]]]
        delta == paths_sorted[1]
        candidates == Tail(paths_sorted)
        byScore == SortedIdx(Len(candidates), {q \in Pairs(Len(candidates)) :
                       ScoredLess(k, candidates[q[1]], candidates[q[2]], delta)})
    IN <<candidates[byScore[1]], delta>>

NoPair == <<>>

discover_json_base_delta(files) ==
    LET groups == [k \in {"invoice", "product", "unknown"} |->
                      SelectSeq(files, LAMBDA f : FileKind(f) = k)]
    IN IF Len(groups["invoice"]) < 2
       THEN [raised |-> TRUE, invoice |-> NoPair, product |-> NoPair]
       ELSE IF Len(groups["product"]) < 2
       THEN [raised |-> TRUE, invoice |-> NoPair, product |-> NoPair]
       ELSE [raised |-> FALSE,
             invoice |-> SelectBaseDelta("invoice", groups["invoice"]),
             product |-> SelectBaseDelta("product", groups["product"])]

(***************************************************************************)
(* CSV Pair Selector: discover_csv_pair                                    *)
(* A CSV file is [readable, size, ncols, nrows]: readable is whether       *)
(* pd.read_csv(p, nrows=1) succeeds, ncols the columns of its header,      *)
(* nrows its line count less one.  A path is the file's index in the       *)
(* listing csv_paths.                                                      *)
(***************************************************************************)
Csv(readable, size, ncols, nrows) ==
    [readable |-> readable, size |-> size, ncols |-> ncols, nrows |-> nrows]

\* info: the paths whose header could be read, in listing order.
CsvInfo(files) == SelectSeq([i \in 1..Len(files) |-> i], LAMBDA i : files[i].readable)

\* full_candidates = [x for x in info if x[3] == mini_rows and x[2] > mini[2]]
FullCandidates(files, info, mini) ==
    SelectSeq(info, LAMBDA i : /\ files[i].nrows = files[mini].nrows
                               /\ files[i].ncols > files[mini].ncols)

\* The candidate first in increasing order of size.
PickFullSmallest(files, cands) ==
    cands[SortedIdx(Len(cands), {q \in Pairs(Len(cands)) :
        files[cands[q[1]]].size < files[cands[q[2]]].size})[1]]

\* full = sorted(full_candidates, key=lambda x: (-x[1], -x[2]))[0]
PickFull(files, cands) ==
    cands[SortedIdx(Len(cands), {q \in Pairs(Len(cands)) :
        \/ files[cands[q[1]]].size > files[cands[q[2]]].size
        \/ /\ files[cands[q[1]]].size = files[cands[q[2]]].size
           /\ files[cands[q[1]]].ncols > files[cands[q[2]]].ncols})[1]]

CsvRaised == [raised |-> TRUE, full |-> 0, mini |-> 0]

discover_csv_pair(files) ==
    IF Len(files) < 2 THEN CsvRaised
    ELSE LET info == CsvInfo(files) IN
         IF info = <<>> THEN CsvRaised
         ELSE LET byCols == SortedIdx(Len(info), {q \in Pairs(Len(info)) :
                      \/ files[info[q[1]]].ncols < files[info[q[2]]].ncols
                      \/ /\ files[info[q[1]]].ncols = files[info[q[2]]].ncols
                         /\ files[info[q[1]]].size < files[info[q[2]]].size})
                  mini == info[byCols[1]]
                  full_candidates == FullCandidates(files, info, mini)
              IN IF full_candidates # <<>>
                 THEN [raised |-> FALSE, full |-> PickFull(files, full_candidates),
                       mini |-> mini]
                 ELSE LET bySize == SortedIdx(Len(info), {q \in Pairs(Len(info)) :
                              files[info[q[1]]].size < files[info[q[2]]].size})
                      IN [raised |-> FALSE, full |-> info[bySize[Len(info)]],
                          mini |-> info[bySize[1]]]

(***************************************************************************)
(* Row Projector: category_t2, is_mcu_product, extract_mcu_fields,         *)
(* build_other_params_dict, build_rows                                     *)
(***************************************************************************)
FUTURE_FULL_SCHEMA ==
    <<"description", "category", "dk_pn", "mfr_pn", "mfr", "qty_shipped",
      "gbp_unit_price", "gbp_ext_price", "invoice_id", "date_shipped", "series",
      "product_status", "package_type", "core_processor", "core_type",
      "clock_speed", "program_memory_size", "other_parameters">>

MCU_PROMOTED_PARAM_TEXTS ==
    <<"Core Processor", "Core Size", "Speed", "Program Memory Size">>

\* (x or {}).get("name", "") for an object x that is a {"name": ...} or null.
NameOrEmpty(x) == IF x = NoneObj THEN "" ELSE GetD(x.name, "")

\* Python "a or b" on strings.
StrOr(a, b) == IF Truthy(a) THEN a ELSE b

category_t2(prod) ==
    IF prod = NoneObj THEN ""
    ELSE LET cat == prod.category IN
         IF cat = NoneObj THEN ""
         ELSE LET children == cat.childCategories IN
              IF children # <<>>
              THEN StrOr(GetD(children[1].name, ""), GetD(cat.name, ""))
              ELSE GetD(cat.name, "")

\* names, as walk(c) appends them: the category's name, then its subtrees'.
RECURSIVE walk(_)
walk(c) ==
    IF c = NoneObj THEN <<>>
    ELSE <<GetD(c.name, "")>> \o
         Flatten([i \in 1..Len(c.childCategories) |->
                     walk(c.childCategories[i])])

\* walk(c) that does not descend into the child categories.
walk_top_only(c) ==
    IF c = NoneObj THEN <<>> ELSE <<GetD(c.name, "")>>

CategoryNames(c) == walk(c)

\* "microcontroller" in n.lower(), tabulated for the category names the
\* model draws (strings are atoms here).
ContainsMicrocontroller(n) ==
    n \in {"Embedded - Microcontrollers",
           "Embedded - Microcontrollers - Application Specific",
           "MICROCONTROLLERS"}

\* " ".join(...) puts a space between the names and "microcontroller" holds
\* none, so the substring lies within one name.
is_mcu_product(prod) ==
    IF prod = NoneObj THEN FALSE
    ELSE \E n \in Range(CategoryNames(prod.category)) : ContainsMicrocontroller(n)

\* An ordered dict: d[k] = v keeps the place of a key already there.
DictHas(d, k) == \E i \in 1..Len(d) : d[i][1] = k
DictGet(d, k, dflt) ==
    IF DictHas(d, k) THEN d[CHOOSE i \in 1..Len(d) : d[i][1] = k][2] ELSE dflt
DictSet(d, k, v) ==
    IF DictHas(d, k)
    THEN [i \in 1..Len(d) |-> IF d[i][1] = k THEN <<k, v>> ELSE d[i]]
    ELSE Append(d, <<k, v>>)
DictPop(d, k) == SelectSeq(d, LAMBDA e : e[1] # k)
DictKeys(d) == [i \in 1..Len(d) |-> d[i][1]]

\* { prm.get("parameterText",""): prm.get("valueText","") for prm in ... }
RECURSIVE ParamsDict(_, _, _)
ParamsDict(d, parameters, i) ==
    IF i > Len(parameters) THEN d
    ELSE ParamsDict(DictSet(d, GetD(parameters[i].parameterText, ""),
                               GetD(parameters[i].valueText, "")),
                    parameters, i + 1)

\* The core type derived from the core processor text, tabulated for the
\* texts the model draws: from "Cortex" on with the (R) glyphs removed, else
\* "AVR" when the text holds it, else core_size or the text itself.
CoreType(cp, core_size) ==
    CASE cp = "ARM(R) Cortex(R)-M4" -> "Cortex-M4"
      [] cp = "AVR 8-bit" -> "AVR"
      [] OTHER -> StrOr(core_size, cp)

extract_mcu_fields(prod) ==
    LET params == ParamsDict(<<>>, prod.parameters, 1)
        core_processor == DictGet(params, "Core Processor", "")
        clock_speed == DictGet(params, "Speed", "")
        program_memory_size == DictGet(params, "Program Memory Size", "")
        core_size == DictGet(params, "Core Size", "")
    IN <<core_processor, CoreType(core_processor, core_size), clock_speed,
         program_memory_size>>

\* Whether build_other_params_dict skips the parameter named k.
IsPromotedText(k) == k \in Range(MCU_PROMOTED_PARAM_TEXTS)

RECURSIVE OtherParams(_, _, _)
OtherParams(out, parameters, i) ==
    IF i > Len(parameters) THEN out
    ELSE LET k == GetD(parameters[i].parameterText, "") IN
         OtherParams(IF IsPromotedText(k) THEN out
                     ELSE DictSet(out, k, GetD(parameters[i].valueText, "")),
                     parameters, i + 1)

build_other_params_dict(prod) ==
    IF prod = NoneObj THEN <<>>
    ELSE OtherParams(<<>>, prod.parameters, 1)

\* json.dumps(d, ensure_ascii=False): the text of an ordered dict of strings
\* is its key/value pairs in order.
JsonDumps(d) == [json |-> d]

\* prod_by_dk.get(dk): the product object, or NoneObj.
LookupProduct(lut, dk) ==
    IF dk \in DOMAIN lut THEN Deref(lut[dk], products_base, products_delta) ELSE NoneObj

\* inv_by_id.get(inv_id) for inv_by_id = {inv.get("invoiceId"): inv for inv in
\* order.get("invoices", [])}: the last header with that id, or NoneObj.
HeaderOf(order, inv_id) ==
    LET hs == order.invoices
        at == {i \in 1..Len(hs) : Get(hs[i].invoiceId) = inv_id}
    IN IF at = {} THEN NoneObj
       ELSE hs[CHOOSE i \in at : \A j \in at : j <= i]

\* The package type of the first variation whose part number is dk.
PackageType(prod, dk) ==
    LET vs == prod.productVariations
        at == {j \in 1..Len(vs) : Get(vs[j].digiKeyProductNumber) = dk}
    IN IF at = {} THEN ""
       ELSE NameOrEmpty(vs[CHOOSE j \in at : \A k \in at : j <= k].packageType)

\* r["_is_new"] = bool(new_detail_keys and key in new_detail_keys); the
\* argument None is given as the empty set, which is as false.
IsNew(new_detail_keys, key) == new_detail_keys # {} /\ key \in new_detail_keys

\* The row of line item d of an order.
Row(order, d, key, lut, new_detail_keys) ==
    LET inv_id == Get(d.invoiceId)
        dk == GetD(d.digiKeyProductNumber, "")
        prod == LookupProduct(lut, dk)
        inv == HeaderOf(order, inv_id)
        mcu == IF prod # NoneObj /\ is_mcu_product(prod)
               THEN extract_mcu_fields(prod) ELSE <<"", "", "", "">>
        other_dict == build_other_params_dict(prod)
    IN ("_detail_key" :> key) @@
       ("_is_new" :> IsNew(new_detail_keys, key)) @@
       ("_qty_bought" :> GetD(d.quantityInitial, "")) @@
       ("description" :> GetD(d.description, "")) @@
       ("category" :> category_t2(prod)) @@
       ("dk_pn" :> dk) @@
       ("mfr_pn" :> GetD(d.manufacturerProductNumber, "")) @@
       ("mfr" :> GetD(d.manufacturerName, "")) @@
       ("qty_shipped" :> GetD(d.quantityShipped, "")) @@
       ("gbp_unit_price" :> GetD(d.formattedUnitPrice, "")) @@
       ("gbp_ext_price" :> GetD(d.formattedExtendedPrice, "")) @@
       ("invoice_id" :> IF inv_id # None THEN inv_id ELSE "") @@
       ("date_shipped" :> IF inv # NoneObj THEN GetD(inv.dateShipped, "") ELSE "") @@
       ("series" :> IF prod # NoneObj THEN NameOrEmpty(prod.series) ELSE "") @@
       ("product_status" :>
            IF prod # NoneObj /\ prod.productStatus # NoneObj
            THEN GetD(prod.productStatus.status, "") ELSE "") @@
       ("package_type" :> IF prod # NoneObj THEN PackageType(prod, dk) ELSE "") @@
       ("core_processor" :> mcu[1]) @@
       ("core_type" :> mcu[2]) @@
       ("clock_speed" :> mcu[3]) @@
       ("program_memory_size" :> mcu[4]) @@
       ("_other_dict" :> other_dict) @@
       ("other_parameters" :> JsonDumps(other_dict))

\* The line items in the order the two loops meet them, each with its order.
LineItems(invoices_doc) ==
    Flatten([o \in 1..Len(invoices_doc) |->
        LET ds == invoices_doc[o].invoiceDetails
        IN [i \in 1..Len(ds) |-> <<invoices_doc[o], ds[i]>>]])

\* The duplicate test that never skips.
NeverSeen(seen, key) == FALSE

\* if key in seen: continue
AlreadySeen(seen, key) == key \in seen

RECURSIVE RowsFrom(_, _, _, _, _, _)
RowsFrom(items, i, seen, rows, lut, new_detail_keys) ==
    IF i > Len(items) THEN rows
    ELSE LET key == DetailKey(items[i][2]) IN
         IF AlreadySeen(seen, key)
         THEN RowsFrom(items, i + 1, seen, rows, lut, new_detail_keys)
         ELSE RowsFrom(items, i + 1, seen \cup {key},
                       Append(rows, Row(items[i][1], items[i][2], key, lut,
                                        new_detail_keys)),
                       lut, new_detail_keys)

\* The sequence back to front.
Reverse(s) == [i \in 1..Len(s) |-> s[Len(s) + 1 - i]]

\* The projection in which the last line item of a key gives the row.
build_rows_last_wins(invoices_doc, lut, new_detail_keys) ==
    Reverse(RowsFrom(Reverse(LineItems(invoices_doc)), 1, {}, <<>>, lut,
                     new_detail_keys))

build_rows(invoices_doc, lut, new_detail_keys) ==
    RowsFrom(LineItems(invoices_doc), 1, {}, <<>>, lut, new_detail_keys)

\* The concatenation the other way round.
MergedInvoicesDeltaFirst(base, delta) == delta \o base

\* invoices_base + invoices_delta
MergedInvoices(base, delta) == base \o delta

(***************************************************************************)
(* Schema Mutator: apply_schema_mutations                                  *)
(* A DataFrame is the sequence of its rows, each a function of its column  *)
(* names; mut is NoneObj or a SchemaMutations record whose                 *)
(* promote_other_params is an ordered dict of parameterText -> column.     *)
(***************************************************************************)
SchemaMutations(drop, promote, before) ==
    [drop_output_columns |-> drop, promote_other_params |-> promote,
     promoted_insert_before |-> before]

\* df[col] = values
SetCol(df, col, values) ==
    [r \in 1..Len(df) |->
        [c \in DOMAIN df[r] \cup {col} |-> IF c = col THEN values[r] ELSE df[r][c]]]

\* Whether the column _other_dict, once overwritten by a promoted column,
\* holds a non-empty string in some row: d.get and dict(d) raise on it.
BadOtherDict(df, clobbered) ==
    clobbered /\ \E r \in 1..Len(df) : df[r]["_other_dict"] # ""

\* row.get("_other_dict", {}) or {}
OtherDictOf(row, clobbered) == IF clobbered THEN <<>> ELSE row["_other_dict"]

\* for src_key, new_col in mut.promote_other_params.items(): ...
RECURSIVE PromoteColumns(_, _, _, _)
PromoteColumns(df, promote, i, clobbered) ==
    IF i > Len(promote) THEN [raised |-> FALSE, df |-> df, clobbered |-> clobbered]
    ELSE IF BadOtherDict(df, clobbered)
    THEN [raised |-> TRUE, df |-> df, clobbered |-> clobbered]
    ELSE LET src_key == promote[i][1]
             new_col == promote[i][2]
             picked == [r \in 1..Len(df) |->
                           DictGet(OtherDictOf(df[r], clobbered), src_key, "")]
         IN PromoteColumns(SetCol(df, new_col, picked), promote, i + 1,
                           clobbered \/ new_col = "_other_dict")

\* d.pop(src_key, None) for every promoted key
RECURSIVE PopAll(_, _, _)
PopAll(d, keys, i) ==
    IF i > Len(keys) THEN d ELSE PopAll(DictPop(d, keys[i]), keys, i + 1)

\* df["other_parameters"] = df.apply(strip_and_dump, axis=1)
StripAndDump(df, promote, clobbered) ==
    SetCol(df, "other_parameters",
           [r \in 1..Len(df) |->
               JsonDumps(PopAll(OtherDictOf(df[r], clobbered), DictKeys(promote), 1))])

\* schema_out.index(c)
IndexOf(cols, c) == CHOOSE i \in 1..Len(cols) : cols[i] = c /\ \A j \in 1..(i - 1) : cols[j] # c

\* schema_out.remove(c): the first occurrence goes
RemoveFirst(cols, c) ==
    LET at == IndexOf(cols, c)
    IN SubSeq(cols, 1, at - 1) \o SubSeq(cols, at + 1, Len(cols))

\* for c in new_cols: if c in schema_out: schema_out.remove(c)
RECURSIVE RemoveNewCols(_, _, _)
RemoveNewCols(cols, new_cols, i) ==
    IF i > Len(new_cols) THEN cols
    ELSE RemoveNewCols(IF new_cols[i] \in Range(cols)
                       THEN RemoveFirst(cols, new_cols[i]) ELSE cols,
                       new_cols, i + 1)

\* schema_out[idx:idx] = new_cols, idx counted from 0 and clipped to the length
SliceInsert(cols, idx, new_cols) ==
    LET at == IF idx > Len(cols) THEN Len(cols) ELSE idx
    IN SubSeq(cols, 1, at) \o new_cols \o SubSeq(cols, at + 1, Len(cols))

\* idx = schema_out.index(insert_before) if insert_before in schema_out
\*       else len(schema_out), taken before the new columns are removed
InsertIndex(cols, new_cols, insert_before) ==
    IF insert_before \in Range(cols) THEN IndexOf(cols, insert_before) - 1
    ELSE Len(cols)

apply_schema_mutations(df, schema_in, mut) ==
    IF mut = NoneObj THEN [raised |-> FALSE, df |-> df, schema |-> schema_in]
    ELSE LET dropped == SelectSeq(schema_in,
                            LAMBDA c : c \notin Range(mut.drop_output_columns))
             promote == mut.promote_other_params
         IN IF promote = <<>>
            THEN [raised |-> FALSE, df |-> df, schema |-> dropped]
            ELSE LET promoted == PromoteColumns(df, promote, 1, FALSE) IN
                 IF promoted.raised \/ BadOtherDict(promoted.df, promoted.clobbered)
                 THEN [raised |-> TRUE, df |-> promoted.df, schema |-> dropped]
                 ELSE LET new_cols == [i \in 1..Len(promote) |-> promote[i][2]]
                          idx == InsertIndex(dropped, new_cols,
                                             mut.promoted_insert_before)
                      IN [raised |-> FALSE,
                          df |-> StripAndDump(promoted.df, promote, promoted.clobbered),
                          schema |-> SliceInsert(RemoveNewCols(dropped, new_cols, 1),
                                                 idx, new_cols)]

(***************************************************************************)
(* Idle values of the variable groups an operation does not use            *)
(***************************************************************************)
ClassifyIdle == doc = [isList |-> FALSE, elems |-> <<>>] /\ kind = None
LookupIdle == products_base = <<>> /\ products_delta = <<>> /\ prod_by_dk = EmptyLut

RowsIdle ==
    /\ invoices_base = <<>> /\ invoices_delta = <<>> /\ delta_only_keys = {}
    /\ base_rows = <<>> /\ merged_rows = <<>>
SchemaIdle ==
    /\ schema_mutations = NoneObj /\ schema = <<>> /\ df_out = <<>> /\ schema_out = <<>>
DiscoverIdle == json_files = <<>> /\ pairs = None
CsvIdle == csv_files = <<>> /\ csv_pair = None
IndepIdle == delta_alt = <<>> /\ rows_alt = <<>>

classify_vars == <<doc, kind>>
rows_vars == <<invoices_base, invoices_delta, delta_only_keys, base_rows, merged_rows>>
schema_vars == <<schema_mutations, schema, df_out, schema_out>>
discover_vars == <<json_files, pairs>>
csv_vars == <<csv_files, csv_pair>>
lookup_vars == <<products_base, products_delta, prod_by_dk>>
indep_vars == <<delta_alt, rows_alt>>

(***************************************************************************)
(* SpecClassify: the classifier applied to every bounded JSON value        *)
(***************************************************************************)
InitClassify ==
    /\ pc = "classify"
    /\ doc \in JsonDocs
    /\ kind = None
    /\ LookupIdle /\ RowsIdle /\ SchemaIdle /\ DiscoverIdle /\ CsvIdle /\ written = {} /\ IndepIdle

Classify ==
    /\ pc = "classify"
    /\ kind' = _classify_json_doc(doc)
    /\ pc' = "done"
    /\ UNCHANGED <<doc, lookup_vars, rows_vars, schema_vars, discover_vars, csv_vars, written, indep_vars>>

NextClassify == Classify

SpecClassify == InitClassify /\ [][NextClassify]_vars

(***************************************************************************)
(* SpecLookup: build_prod_by_dk applied to every bounded (base, delta)     *)
(***************************************************************************)
InitLookup ==
    /\ pc = "build_prod_by_dk"
    /\ products_base \in LookupDocs
    /\ products_delta \in LookupDocs
    /\ prod_by_dk = EmptyLut
    /\ ClassifyIdle /\ RowsIdle /\ SchemaIdle /\ DiscoverIdle /\ CsvIdle /\ written = {} /\ IndepIdle

BuildProdByDk ==
    /\ pc = "build_prod_by_dk"
    /\ prod_by_dk' = build_prod_by_dk(products_base, products_delta)
    /\ pc' = "done"
    /\ UNCHANGED <<products_base, products_delta, classify_vars, rows_vars, schema_vars, discover_vars, csv_vars, written, indep_vars>>

NextLookup == BuildProdByDk

SpecLookup == InitLookup /\ [][NextLookup]_vars

(***************************************************************************)
(* SpecDiscover: discover_json_base_delta applied to bounded directories   *)
(***************************************************************************)
Sizes == {100, 200}

ProdDK1 == Product(<<Variation("DK1", "Tape")>>, NoneObj, <<>>, "S", "Active")
ProdDK2 == Product(<<Variation("DK2", "Reel")>>, NoneObj, <<>>, "S", "Active")

DiscoverProductDocs ==
    {ProductsDoc(<<ProdDK1>>), ProductsDoc(<<ProdDK2>>),
     ProductsDoc(<<ProdDK1, ProdDK2>>)}

\* k product files with distinct names, in the order glob lists them.
NamedFiles(k) ==
    {s \in [1..k -> [path : 1..k, size : Sizes, doc : DiscoverProductDocs]] :
        \A i, j \in 1..k : i # j => s[i].path # s[j].path}

DiscoverProductFiles == UNION {NamedFiles(k) : k \in 0..MaxFiles}

OrdersA == <<Order(<<>>, <<Detail("I1", "D1", "DK1", "a")>>)>>
OrdersB == <<Order(<<>>, <<Detail("I2", "D1", "DK2", "b")>>)>>
OrdersAB == OrdersA \o OrdersB

\* A directory's invoice files and product files with nothing to decide.
InvoicePair ==
    <<File(11, 100, InvoicesDoc(OrdersA)), File(12, 200, InvoicesDoc(OrdersB))>>
ProductPair ==
    <<File(1, 200, ProductsDoc(<<ProdDK1>>)), File(2, 100, ProductsDoc(<<ProdDK2>>))>>

DiscoverInvoiceGroups ==
    {<<File(11, 100, InvoicesDoc(OrdersA))>>,
     InvoicePair,
     <<File(12, 100, InvoicesDoc(OrdersAB)), File(11, 100, InvoicesDoc(OrdersA)),
       File(13, 0, BadDoc)>>,
     <<File(11, 200, InvoicesDoc(OrdersAB)), File(12, 50, InvoicesDoc(OrdersA)),
       File(13, 100, InvoicesDoc(OrdersB))>>,
     <<File(11, 100, InvoicesDoc(OrdersB)), File(12, 50, InvoicesDoc(OrdersA)),
       File(13, 200, InvoicesDoc(OrdersB))>>}

InitDiscover ==
    /\ pc = "discover_json_base_delta"
    /\ \E g \in DiscoverInvoiceGroups, pf \in DiscoverProductFiles :
          /\ g = InvoicePair \/ pf = ProductPair
          /\ json_files = g \o pf
    /\ pairs = None
    /\ ClassifyIdle /\ LookupIdle /\ RowsIdle /\ SchemaIdle /\ CsvIdle /\ written = {} /\ IndepIdle

DiscoverJson ==
    /\ pc = "discover_json_base_delta"
    /\ pairs' = discover_json_base_delta(json_files)
    /\ pc' = IF pairs'.raised THEN "raised" ELSE "discover_csv_pair"
    /\ UNCHANGED <<json_files, classify_vars, lookup_vars, rows_vars, schema_vars, csv_vars, written, indep_vars>>

NextDiscover == DiscoverJson

SpecDiscover == InitDiscover /\ [][NextDiscover]_vars

\* The files of one kind in the directory.
GroupOf(k) == SelectSeq(json_files, LAMBDA f : FileKind(f) = k)

\* The selection of base among the files of the group other than delta.
BaseIsArgmin(k, base, delta) ==
    LET rest == {f \in Range(GroupOf(k)) : f.path # delta.path} IN
    /\ base \in rest
    /\ \A f \in rest : overlap(k, base, delta) <= overlap(k, f, delta)
    /\ \A f \in rest : overlap(k, f, delta) = overlap(k, base, delta)
                          => f.size <= base.size

(***************************************************************************)
(* SpecCsv: discover_csv_pair applied to bounded directories               *)
(***************************************************************************)
CsvFiles ==
    {Csv(TRUE, s, c, r) : s \in Sizes, c \in {4, 18, 19}, r \in {7, 8}}
        \cup {Csv(FALSE, 100, 0, 0)}

InitCsv ==
    /\ pc = "discover_csv_pair"
    /\ csv_files \in SeqUpTo(CsvFiles, MaxCsv)
    /\ csv_pair = None
    /\ ClassifyIdle /\ LookupIdle /\ RowsIdle /\ SchemaIdle /\ DiscoverIdle /\ written = {} /\ IndepIdle

DiscoverCsv ==
    /\ pc = "discover_csv_pair"
    /\ csv_pair' = discover_csv_pair(csv_files)
    /\ pc' = IF csv_pair'.raised THEN "raised" ELSE "load"
    /\ UNCHANGED <<csv_files, classify_vars, lookup_vars, rows_vars, schema_vars, discover_vars, written, indep_vars>>

NextCsv == DiscoverCsv

SpecCsv == InitCsv /\ [][NextCsv]_vars

\* The readable candidates, and the order "fewest columns, then smallest".
Readable == {i \in 1..Len(csv_files) : csv_files[i].readable}
FewestColumns ==
    {m \in Readable : \A i \in Readable :
        \/ csv_files[m].ncols < csv_files[i].ncols
        \/ /\ csv_files[m].ncols = csv_files[i].ncols
           /\ csv_files[m].size <= csv_files[i].size}
RowMatches(m) ==
    {i \in Readable : /\ csv_files[i].nrows = csv_files[m].nrows
                      /\ csv_files[i].ncols > csv_files[m].ncols}

(***************************************************************************)
(* SpecRows: steps 2 to 4 of run_pipeline (the key sets, the lookup, the   *)
(* base rows and the merged rows) on bounded loaded documents              *)
(***************************************************************************)
CatRes == Category("Resistors", <<>>)
CatMpu == Category("Integrated Circuits (ICs)",
                   <<Category("Embedded - Microprocessors", <<>>)>>)
CatMcu == Category("Integrated Circuits (ICs)",
                   <<Category("Embedded - Microcontrollers", <<>>)>>)
CatMcuDeep == Category("Integrated Circuits (ICs)",
                   <<Category("Embedded", <<Category("MICROCONTROLLERS", <<>>)>>)>>)

McuParams ==
    <<Param("Core Processor", "ARM(R) Cortex(R)-M4"), Param("Speed", "48MHz"),
      Param("Mounting Type", "Surface Mount"), Param("Program Memory Size", "64KB"),
      Param("Core Size", "32-Bit")>>

PRes1 == Product(<<Variation("DK1", "Tape")>>, CatRes,
                 <<Param("Resistance", "10k"), Param("Mounting Type", "Surface Mount")>>,
                 "RC", "Active")
PMpu2 == Product(<<Variation("DK2", "Tray")>>, CatMpu,
                 <<Param("Core Processor", "ARM(R) Cortex(R)-M4"), Param("Speed", "1GHz"),
                   Param("Mounting Type", "Surface Mount")>>,
                 "MPU", "Active")
PMcu3 == Product(<<Variation("DK3X", "Reel"), Variation("DK3", "Tray")>>, CatMcu,
                 McuParams, "M4", "Active")
PMcu3NoCp == Product(<<Variation("DK3", "Tray")>>, CatMcuDeep,
                     <<Param("Speed", "16MHz"), Param("Speed", "20MHz")>>, None, "Obsolete")
PMcu2 == Product(<<Variation("DK2", "Reel")>>, CatMcu, McuParams, "M4", "Active")

RowsBaseProducts == {<<>>, <<PRes1, PMpu2>>}
RowsDeltaProducts == {<<>>, <<PMcu3>>, <<PMcu2, PMcu3NoCp>>}

RowsOrders ==
    {Order(<<Header("I1", "2024-01-05")>>,
           <<Detail("I1", "D1", "DK1", "resistor"), Detail("I1", "D2", "DK2", "mpu")>>),
     Order(<<Header("I1", "2024-02-09")>>,
           <<Detail("I1", "D1", "DK3", "mcu")>>),
     Order(<<>>,
           <<Detail("I2", Missing, "DK3", "mcu"), Detail("I2", Missing, "DK3", "mcu again")>>),
     Order(<<Header("I3", "2024-03-01")>>,
           <<Detail("I3", "D1", "DK3", "mcu"), Detail("I3", "D2", Missing, "no part")>>)}

RowsInvoiceDocs == SeqUpTo(RowsOrders, MaxOrders)

InitRows ==
    /\ pc = "keys"
    /\ invoices_base \in RowsInvoiceDocs
    /\ invoices_delta \in RowsInvoiceDocs
    /\ products_base \in RowsBaseProducts
    /\ products_delta \in RowsDeltaProducts
    /\ prod_by_dk = EmptyLut
    /\ delta_only_keys = {} /\ base_rows = <<>> /\ merged_rows = <<>>
    /\ ClassifyIdle /\ SchemaIdle /\ DiscoverIdle /\ CsvIdle /\ written = {} /\ IndepIdle

\* 2) Expected new rows from delta = delta_only(detail_key)
ComputeKeys ==
    /\ pc = "keys"
    /\ LET base_detail_keys == Range(iter_detail_keys(invoices_base))
           delta_detail_keys == Range(iter_detail_keys(invoices_delta))
       IN delta_only_keys' = delta_detail_keys \ base_detail_keys
    /\ pc' = "lookup"
    /\ UNCHANGED <<invoices_base, invoices_delta, base_rows, merged_rows,
                   lookup_vars, classify_vars, schema_vars, discover_vars, csv_vars, written, indep_vars>>

\* 3) Build lookup with base precedence
BuildLookup ==
    /\ pc = "lookup"
    /\ prod_by_dk' = build_prod_by_dk(products_base, products_delta)
    /\ pc' = "rows"
    /\ UNCHANGED <<products_base, products_delta, rows_vars,
                   classify_vars, schema_vars, discover_vars, csv_vars, written, indep_vars>>

\* 4) Build base rows and merged rows (deduped)
BuildRows ==
    /\ pc = "rows"
    /\ base_rows' = build_rows(invoices_base, prod_by_dk, {})
    /\ merged_rows' = build_rows(MergedInvoices(invoices_base, invoices_delta),
                                 prod_by_dk, delta_only_keys)
    /\ pc' = "assert_a"
    /\ UNCHANGED <<invoices_base, invoices_delta, delta_only_keys,
                   lookup_vars, classify_vars, schema_vars, discover_vars, csv_vars, written, indep_vars>>

NextRows == ComputeKeys \/ BuildLookup \/ BuildRows

SpecRows == InitRows /\ [][NextRows]_vars

\* The identity keys of the loaded invoice documents.
BaseKeys == Range(iter_detail_keys(invoices_base))
DeltaKeys == Range(iter_detail_keys(invoices_delta))

\* The merged rows not flagged new.
MergedOld == SelectSeq(merged_rows, LAMBDA r : ~r["_is_new"])
NewRows == SelectSeq(merged_rows, LAMBDA r : r["_is_new"])

RowKeys(rows) == {rows[i]["_detail_key"] : i \in 1..Len(rows)}

\* The product a row was matched with (NoneObj when its part number is in no
\* product document): the first base carrier, else the first delta carrier.
MatchedProduct(r) ==
    IF r["dk_pn"] \in DkKeysOfDoc(products_base)
    THEN products_base[FirstCarrier(products_base, r["dk_pn"])]
    ELSE IF r["dk_pn"] \in DkKeysOfDoc(products_delta)
    THEN products_delta[FirstCarrier(products_delta, r["dk_pn"])]
    ELSE NoneObj

\* The value text of the last parameter of a product named text, else "".
LastParam(prod, text) ==
    LET ps == prod.parameters
        at == {i \in 1..Len(ps) : ps[i].parameterText = text}
    IN IF at = {} THEN "" ELSE ps[CHOOSE i \in at : \A j \in at : j <= i].valueText

\* Whether the category tree of a product has a name with "Microcontrollers".
InMicrocontrollerTree(prod) ==
    \E n \in Range(walk(prod.category)) : ContainsMicrocontroller(n)

\* The parameters of a product as name -> value pairs, less those named in ex.
ParamPairs(prod, ex) ==
    {<<prod.parameters[i].parameterText, LastParam(prod, prod.parameters[i].parameterText)>> :
        i \in {j \in 1..Len(prod.parameters) : prod.parameters[j].parameterText \notin ex}}

(***************************************************************************)
(* SpecSchema: apply_schema_mutations applied to bounded schemas, drop     *)
(* lists and promotion mappings                                            *)
(***************************************************************************)
InternalColumns == {"_detail_key", "_is_new", "_qty_bought", "_other_dict"}

\* A row with the columns build_rows gives it.
SchemaRow(key, series, other_dict) ==
    [c \in Range(FUTURE_FULL_SCHEMA) \cup InternalColumns |->
        CASE c = "_detail_key" -> key
          [] c = "_is_new" -> FALSE
          [] c = "_other_dict" -> other_dict
          [] c = "other_parameters" -> JsonDumps(other_dict)
          [] c = "series" -> series
          [] OTHER -> ""]

SchemaFrames ==
    {<<SchemaRow(<<"I1", "D1">>, "RC",
                 <<<<"Resistance", "10k">>, <<"Mounting Type", "Surface Mount">>>>),
       SchemaRow(<<"I1", "D2">>, "", <<>>)>>}

SchemaLists ==
    {FUTURE_FULL_SCHEMA,
     <<"description", "series", "other_parameters", "mfr">>}

PromoteKeys == {"Mounting Type", "Resistance", "Package / Case"}
PromoteColumnNames == {"mounting_type", "package_case", "series"}

\* The ordered dicts of at most MaxPromote entries with distinct keys.
PromoteDicts ==
    {d \in SeqUpTo(PromoteKeys \X PromoteColumnNames, MaxPromote) :
        \A i, j \in 1..Len(d) : i # j => d[i][1] # d[j][1]}

SchemaMutationSet ==
    {NoneObj} \cup
    {SchemaMutations(drop, promote, before) :
        drop \in {<<>>, <<"series">>, <<"other_parameters", "mfr">>},
        promote \in PromoteDicts,
        before \in {"other_parameters", "core_type"}}

InitSchema ==
    /\ pc = "mutate"
    /\ schema_mutations \in SchemaMutationSet
    /\ schema \in SchemaLists
    /\ df_out \in SchemaFrames
    /\ schema_out = <<>>
    /\ ClassifyIdle /\ LookupIdle /\ RowsIdle /\ DiscoverIdle /\ CsvIdle /\ written = {} /\ IndepIdle

\* 9) Apply optional schema mutations
ApplySchemaMutations ==
    /\ pc = "mutate"
    /\ LET res == apply_schema_mutations(df_out, schema, schema_mutations)
       IN /\ df_out' = res.df
          /\ schema_out' = res.schema
          /\ pc' = IF res.raised THEN "raised" ELSE "mkdir"
    /\ UNCHANGED <<schema_mutations, schema, classify_vars, lookup_vars, rows_vars,
                   discover_vars, csv_vars, written, indep_vars>>

NextSchema == ApplySchemaMutations

SpecSchema == InitSchema /\ [][NextSchema]_vars

\* The column list after the drop, the promoted columns, and the remaining
\* columns that are not promoted ones.
PostDrop ==
    SelectSeq(schema, LAMBDA c : c \notin Range(schema_mutations.drop_output_columns))
PromotedColumns ==
    [i \in 1..Len(schema_mutations.promote_other_params) |->
        schema_mutations.promote_other_params[i][2]]
OtherColumns == SelectSeq(PostDrop, LAMBDA c : c \notin Range(PromotedColumns))

(***************************************************************************)
(* run_pipeline: discovery, load, steps 2-9, and the five writes of step 10 *)
(***************************************************************************)
AllOutputs ==
    {"merged_products_out.json", "merged_invoices_out.json",
     "updated_full_future_schema.csv", "updated_mini.csv",
     "new_purchases_enriched.csv"}

\* Invoice documents of a run: a base export and a smaller delta export.
\* An order may carry no line item at all.
NoDetails == <<Order(<<>>, <<>>)>>
PipelineBaseOrders ==
    <<Order(<<Header("I1", "2024-01-05")>>,
            <<Detail("I1", "D1", "DK1", "resistor"), Detail("I1", "D2", "DK2", "mpu")>>)>>
PipelineDeltaOrders ==
    <<Order(<<Header("I3", "2024-03-01")>>,
            <<Detail("I1", "D1", "DK1", "resistor"), Detail("I3", "D1", "DK3", "mcu")>>)>>

PipelineInvoiceFiles ==
    {<<File(11, 200, InvoicesDoc(b)), File(12, 100, InvoicesDoc(d))>> :
        b \in {PipelineBaseOrders, NoDetails}, d \in {PipelineDeltaOrders, NoDetails}}
        \cup {<<File(11, 200, InvoicesDoc(PipelineBaseOrders))>>}

PipelineProductFiles ==
    {<<File(1, 200, ProductsDoc(<<PRes1, PMpu2>>)), File(2, 100, ProductsDoc(<<PMcu3>>))>>,
     <<File(1, 200, ProductsDoc(<<PRes1, PMpu2>>))>>}

PipelineCsvFiles ==
    {<<Csv(TRUE, 200, 19, 8), Csv(TRUE, 100, 4, 8)>>,
     <<Csv(TRUE, 100, 4, 8)>>,
     <<Csv(FALSE, 100, 0, 0), Csv(FALSE, 100, 0, 0)>>}

PipelineMutations ==
    {NoneObj,
     SchemaMutations(<<"series">>, <<>>, "other_parameters"),
     SchemaMutations(<<>>, <<<<"Mounting Type", "mounting_type">>>>, "other_parameters"),
     SchemaMutations(<<>>, <<<<"Mounting Type", "_is_new">>>>, "other_parameters"),
     SchemaMutations(<<>>, <<<<"Mounting Type", "_other_dict">>>>, "other_parameters")}

InitPipeline ==
    /\ pc = "discover_json_base_delta"
    /\ \E inv \in PipelineInvoiceFiles, prod \in PipelineProductFiles :
           json_files = prod \o inv
    /\ pairs = [raised |-> FALSE, invoice |-> NoPair, product |-> NoPair]
    /\ csv_files \in PipelineCsvFiles
    /\ csv_pair = [raised |-> FALSE, full |-> 0, mini |-> 0]
    /\ schema_mutations \in PipelineMutations
    /\ schema = <<>> /\ df_out = <<>> /\ schema_out = <<>>
    /\ ClassifyIdle /\ LookupIdle /\ RowsIdle
    /\ written = {} /\ IndepIdle

\* invoices_base = _load_json(inv_base_p) ... products_delta = _load_json(prod_delta_p)
Load ==
    /\ pc = "load"
    /\ invoices_base' = pairs.invoice[1].doc.items
    /\ invoices_delta' = pairs.invoice[2].doc.items
    /\ products_base' = pairs.product[1].doc.items
    /\ products_delta' = pairs.product[2].doc.items
    /\ pc' = "keys"
    /\ UNCHANGED <<prod_by_dk, delta_only_keys, base_rows, merged_rows,
                   classify_vars, schema_vars, discover_vars, csv_vars, written, indep_vars>>

\* 5) ASSERT A; a frame built from no rows has no column "_is_new" (KeyError)
AssertAPasses ==
    /\ merged_rows # <<>>
    /\ Len(NewRows) = Cardinality(delta_only_keys)

AssertA ==
    /\ pc = "assert_a"
    /\ pc' = IF AssertAPasses THEN "assert_b" ELSE "raised"
    /\ UNCHANGED <<lookup_vars, rows_vars, classify_vars, schema_vars,
                   discover_vars, csv_vars, written, indep_vars>>

\* 6) ASSERT B; set_index("_detail_key") raises on a frame without columns
AssertBPasses ==
    /\ base_rows # <<>>
    /\ RowKeys(base_rows) = RowKeys(MergedOld)
    /\ \A col \in Range(FUTURE_FULL_SCHEMA) :
          /\ Len(base_rows) = Len(MergedOld)
          /\ \A i \in 1..Len(base_rows) :
                /\ base_rows[i]["_detail_key"] = MergedOld[i]["_detail_key"]
                /\ base_rows[i][col] = MergedOld[i][col]

AssertB ==
    /\ pc = "assert_b"
    /\ pc' = IF AssertBPasses THEN "assert_c" ELSE "raised"
    /\ UNCHANGED <<lookup_vars, rows_vars, classify_vars, schema_vars,
                   discover_vars, csv_vars, written, indep_vars>>

\* 7) ASSERT C
AssertCPasses ==
    LET mcu_cols == {"core_processor", "core_type", "clock_speed", "program_memory_size"}
        new_mcu_rows == SelectSeq(merged_rows,
                            LAMBDA r : r["_is_new"] /\ r["core_processor"] # "")
    IN Len(new_mcu_rows) > 0 =>
          \A i \in 1..Len(new_mcu_rows) : \E c \in mcu_cols : new_mcu_rows[i][c] # ""

\* Steps 7 and 8: the assertion, then the arguments of step 9 are
\* df_merged.copy() and FUTURE_FULL_SCHEMA.copy(); step 8 only reads.
AssertC ==
    /\ pc = "assert_c"
    /\ IF AssertCPasses
       THEN pc' = "mutate" /\ df_out' = merged_rows /\ schema' = FUTURE_FULL_SCHEMA
       ELSE pc' = "raised" /\ UNCHANGED <<df_out, schema>>
    /\ UNCHANGED <<schema_mutations, schema_out, lookup_vars, rows_vars, classify_vars,
                   discover_vars, csv_vars, written, indep_vars>>

\* 10) OUT_DIR.mkdir(parents=True, exist_ok=True)
Mkdir ==
    /\ pc = "mkdir"
    /\ pc' = "write_products"
    /\ UNCHANGED <<lookup_vars, rows_vars, classify_vars, schema_vars,
                   discover_vars, csv_vars, written, indep_vars>>

\* json.dump(products_base + products_delta, f, indent=2)
WriteProducts ==
    /\ pc = "write_products"
    /\ written' = written \cup {"merged_products_out.json"}
    /\ pc' = "write_invoices"
    /\ UNCHANGED <<lookup_vars, rows_vars, classify_vars, schema_vars,
                   discover_vars, csv_vars, indep_vars>>

\* json.dump(invoices_base + invoices_delta, f, indent=2)
WriteInvoices ==
    /\ pc = "write_invoices"
    /\ written' = written \cup {"merged_invoices_out.json"}
    /\ pc' = "write_full"
    /\ UNCHANGED <<lookup_vars, rows_vars, classify_vars, schema_vars,
                   discover_vars, csv_vars, indep_vars>>

\* df[cols] raises KeyError when a label of cols is no column of df.
ColumnsOf(df) == DOMAIN df[1]
HasColumns(df, cols) == \A c \in cols : c \in ColumnsOf(df)

\* df_out[schema_out].to_csv(out_full, index=False)
WriteFull ==
    /\ pc = "write_full"
    /\ IF HasColumns(df_out, Range(schema_out))
       THEN written' = written \cup {"updated_full_future_schema.csv"}
            /\ pc' = "write_mini"
       ELSE pc' = "raised" /\ UNCHANGED written
    /\ UNCHANGED <<lookup_vars, rows_vars, classify_vars, schema_vars,
                   discover_vars, csv_vars, indep_vars>>

\* mini_df = pd.DataFrame({...}); mini_df.to_csv(out_mini, index=False)
WriteMini ==
    /\ pc = "write_mini"
    /\ IF HasColumns(df_out, {"mfr_pn", "dk_pn", "description", "_qty_bought"})
       THEN written' = written \cup {"updated_mini.csv"} /\ pc' = "write_new"
       ELSE pc' = "raised" /\ UNCHANGED written
    /\ UNCHANGED <<lookup_vars, rows_vars, classify_vars, schema_vars,
                   discover_vars, csv_vars, indep_vars>>

\* Whether a promotion assigned the column "_is_new": it then holds the
\* promoted strings, no longer the booleans build_rows put there.
IsNewOverwritten(mut) ==
    /\ mut # NoneObj
    /\ \E i \in 1..Len(mut.promote_other_params) :
          mut.promote_other_params[i][2] = "_is_new"

\* df_out[df_out["_is_new"]][schema_out]: a boolean column is a row mask; a
\* column of strings is a list of column labels, and a label that is no
\* column raises KeyError, as does a schema_out column not among them.
NewSelectionRaises(df, cols, mut) ==
    IF IsNewOverwritten(mut)
    THEN LET labels == {df[r]["_is_new"] : r \in 1..Len(df)}
         IN \/ \E l \in labels : l \notin ColumnsOf(df)
            \/ \E c \in Range(cols) : c \notin labels
    ELSE ~HasColumns(df, Range(cols))

\* df_new = df_out[df_out["_is_new"]][schema_out].copy(); df_new.to_csv(out_new)
WriteNew ==
    /\ pc = "write_new"
    /\ IF NewSelectionRaises(df_out, schema_out, schema_mutations)
       THEN pc' = "raised" /\ UNCHANGED written
       ELSE written' = written \cup {"new_purchases_enriched.csv"} /\ pc' = "done"
    /\ UNCHANGED <<lookup_vars, rows_vars, classify_vars, schema_vars,
                   discover_vars, csv_vars, indep_vars>>

NextPipeline ==
    \/ DiscoverJson \/ DiscoverCsv \/ Load
    \/ ComputeKeys \/ BuildLookup \/ BuildRows
    \/ AssertA \/ AssertB \/ AssertC
    \/ ApplySchemaMutations \/ Mkdir
    \/ WriteProducts \/ WriteInvoices \/ WriteFull \/ WriteMini \/ WriteNew

SpecPipeline == InitPipeline /\ [][NextPipeline]_vars

\* The run is over: it returned or an exception left run_pipeline.
RunEnded == pc \in {"done", "raised"}

(***************************************************************************)
(* SpecIndep: steps 3 and 4 of run_pipeline on one base, run twice with    *)
(* two delta product sets                                                  *)
(***************************************************************************)
InitIndep ==
    /\ pc = "project_1"
    /\ invoices_base \in RowsInvoiceDocs
    /\ products_base \in RowsBaseProducts
    /\ products_delta \in RowsDeltaProducts
    /\ delta_alt \in RowsDeltaProducts
    /\ rows_alt = <<>>
    /\ invoices_delta = <<>>
    /\ prod_by_dk = EmptyLut
    /\ delta_only_keys = {} /\ base_rows = <<>> /\ merged_rows = <<>>
    /\ ClassifyIdle /\ SchemaIdle /\ DiscoverIdle /\ CsvIdle /\ written = {}

\* prod_by_dk = build_prod_by_dk(products_base, products_delta)
\* base_rows = build_rows(invoices_base, prod_by_dk, new_detail_keys=None)
ProjectBase ==
    /\ pc \in {"project_1", "project_2"}
    /\ prod_by_dk' = build_prod_by_dk(products_base, products_delta)
    /\ base_rows' = build_rows(invoices_base, prod_by_dk', {})
    /\ pc' = IF pc = "project_1" THEN "next_run" ELSE "done"
    /\ UNCHANGED <<products_base, products_delta, invoices_base, invoices_delta,
                   delta_only_keys, merged_rows, classify_vars, schema_vars,
                   discover_vars, csv_vars, written, indep_vars>>

\* The second run: the same base documents with the other delta product set.
NextRun ==
    /\ pc = "next_run"
    /\ rows_alt' = base_rows
    /\ products_delta' = delta_alt
    /\ delta_alt' = products_delta
    /\ prod_by_dk' = EmptyLut
    /\ base_rows' = <<>>
    /\ pc' = "project_2"
    /\ UNCHANGED <<products_base, invoices_base, invoices_delta, delta_only_keys,
                   merged_rows, classify_vars, schema_vars, discover_vars,
                   csv_vars, written>>

NextIndep == ProjectBase \/ NextRun

SpecIndep == InitIndep /\ [][NextIndep]_vars

\* The vendor part numbers either delta product set carries.
EitherDeltaKeys == DkKeysOfDoc(products_delta) \cup DkKeysOfDoc(delta_alt)

\* Row i of the two runs agrees on every column of the stable output schema.
SameStableColumns(i) ==
    \A col \in Range(FUTURE_FULL_SCHEMA) : rows_alt[i][col] = base_rows[i][col]

(***************************************************************************)
(* Claims                                                                  *)
(***************************************************************************)

\* C1: the lookup of build_prod_by_dk(base, delta) maps every non-empty
\* vendor part number of a base variation to the first base product that
\* carries it (never to a delta record), maps a part number that occurs only
\* in delta to the first delta product carrying it, and has no other key.
C1_BasePrecedence ==
    pc = "done" =>
        /\ DOMAIN prod_by_dk = DkKeysOfDoc(products_base) \cup DkKeysOfDoc(products_delta)
        /\ \A dk \in DkKeysOfDoc(products_base) :
              prod_by_dk[dk] = <<"base", FirstCarrier(products_base, dk)>>
        /\ \A dk \in DkKeysOfDoc(products_delta) \ DkKeysOfDoc(products_base) :
              prod_by_dk[dk] = <<"delta", FirstCarrier(products_delta, dk)>>

\* A lookup has been built from a base and a delta that share a part number,
\* the base has two carriers of it, and another part number is only in delta.
C1_Witness ==
    /\ pc = "done"
    /\ \E dk \in DkKeysOfDoc(products_base) \cap DkKeysOfDoc(products_delta) :
          /\ prod_by_dk[dk][1] = "base"
          /\ Cardinality({i \in 1..Len(products_base) : dk \in DkKeysOf(products_base[i])}) = 2
    /\ DkKeysOfDoc(products_delta) \ DkKeysOfDoc(products_base) # {}

\* C10: _classify_json_doc returns invoice iff the value is a non-empty list
\* whose first element is a mapping with one of the keys invoiceDetails,
\* invoices, boxes; product iff it is such a list whose first element has
\* none of those keys but has productVariations or parameters; unknown
\* otherwise.  Nothing but the first element is read.
C10_Classification ==
    pc = "done" =>
        LET firstIsDict == doc.isList /\ Len(doc.elems) > 0 /\ doc.elems[1].isDict
            inv == firstIsDict /\
                   doc.elems[1].keys \cap {"invoiceDetails", "invoices", "boxes"} # {}
            prod == firstIsDict /\ ~inv /\
                    doc.elems[1].keys \cap {"productVariations", "parameters"} # {}
        IN /\ (kind = "invoice") <=> inv
           /\ (kind = "product") <=> prod
           /\ (kind = "unknown") <=> (~inv /\ ~prod)

\* A list whose first element has both an invoice key and a product key, and
\* whose second element alone would be a product, has been classified.
C10_Witness ==
    /\ pc = "done"
    /\ kind = "invoice"
    /\ Len(doc.elems) = 2
    /\ "parameters" \in doc.elems[1].keys
    /\ doc.elems[2].keys = {"parameters"}

\* C5 (as amended): for every group of 2 or more JSON files of one kind, the
\* selected delta is a smallest file by byte size (no file of the group is
\* smaller), the selected base is one of the other files with the minimal
\* identity-key overlap with delta, and no other file with that overlap is
\* larger than the base.
C5_Selection ==
    pc = "discover_csv_pair" =>
        \A k \in {"invoice", "product"} :
            LET base == pairs[k][1]
                delta == pairs[k][2]
            IN /\ delta \in Range(GroupOf(k))
               /\ \A f \in Range(GroupOf(k)) : delta.size <= f.size
               /\ BaseIsArgmin(k, base, delta)

\* C5 (as claimed): the selected delta is strictly smaller than every other
\* file of its group.
C5_DeltaStrictlySmallest ==
    pc = "discover_csv_pair" =>
        \A k \in {"invoice", "product"} :
            LET base == pairs[k][1]
                delta == pairs[k][2]
            IN /\ \A f \in Range(GroupOf(k)) :
                      f.path # delta.path => delta.size < f.size
               /\ BaseIsArgmin(k, base, delta)

\* A selection among three product files in which two candidates tie on the
\* overlap and differ in size, and the larger one is taken as base.
C5_Witness ==
    /\ pc = "discover_csv_pair"
    /\ Len(GroupOf("product")) = 3
    /\ \E f \in Range(GroupOf("product")) :
          /\ f.path # pairs.product[2].path
          /\ f.path # pairs.product[1].path
          /\ overlap("product", f, pairs.product[2])
                = overlap("product", pairs.product[1], pairs.product[2])
          /\ f.size < pairs.product[1].size

\* C6: with the mini candidate m (fewest columns, ties: smallest file) and the
\* candidates whose row count equals m's and whose column count exceeds m's:
\* if there is such a candidate, discover_csv_pair returns mini = m and full =
\* the largest of them by size (ties: most columns); only if there is none
\* does it return full = a largest file and mini = a smallest file overall.
C6_CsvPair ==
    pc = "load" =>
        \E m \in FewestColumns :
            IF RowMatches(m) # {}
            THEN /\ csv_pair.mini = m
                 /\ csv_pair.full \in RowMatches(m)
                 /\ \A i \in RowMatches(m) :
                       \/ csv_files[i].size < csv_files[csv_pair.full].size
                       \/ /\ csv_files[i].size = csv_files[csv_pair.full].size
                          /\ csv_files[i].ncols <= csv_files[csv_pair.full].ncols
            ELSE /\ csv_pair.full \in Readable
                 /\ csv_pair.mini \in Readable
                 /\ \A i \in Readable :
                       /\ csv_files[i].size <= csv_files[csv_pair.full].size
                       /\ csv_files[csv_pair.mini].size <= csv_files[i].size

\* A pair chosen by the primary rule among two row-count matches of equal
\* size, where the file with the fewest columns is not the smallest file.
C6_Witness ==
    /\ pc = "load"
    /\ Cardinality(RowMatches(csv_pair.mini)) = 2
    /\ \A i \in RowMatches(csv_pair.mini) :
          csv_files[i].size = csv_files[csv_pair.full].size
    /\ csv_files[csv_pair.mini].size > csv_files[csv_pair.full].size

\* C2 (check A): the number of merged rows flagged new equals
\* |delta identity keys - base identity keys|, and the merged projection has
\* exactly |base keys \cup delta keys| rows.
C2_ExactNewRowCount ==
    pc = "assert_a" =>
        /\ Len(NewRows) = Cardinality(DeltaKeys \ BaseKeys)
        /\ Len(merged_rows) = Cardinality(BaseKeys \cup DeltaKeys)

\* A merge in which the delta repeats a base key and brings two new ones, one
\* of them twice.
C2_Witness ==
    /\ pc = "assert_a"
    /\ DeltaKeys \cap BaseKeys # {}
    /\ Len(NewRows) = 2
    /\ Len(iter_detail_keys(invoices_delta)) > Cardinality(DeltaKeys)

\* C3 (check B): the rows projected from base alone and the merged rows not
\* flagged new have the same identity-key set, and for every key and every
\* column of FUTURE_FULL_SCHEMA the two values are equal.
C3_OldDataImmutable ==
    pc = "assert_a" =>
        /\ RowKeys(base_rows) = RowKeys(MergedOld)
        /\ \A i \in 1..Len(base_rows), j \in 1..Len(MergedOld) :
              base_rows[i]["_detail_key"] = MergedOld[j]["_detail_key"] =>
                  \A c \in Range(FUTURE_FULL_SCHEMA) : base_rows[i][c] = MergedOld[j][c]

\* A merge whose delta holds a line item with a base key and another part
\* number, so that the delta's item would project to a different row.
C3_Witness ==
    /\ pc = "assert_a"
    /\ base_rows # <<>>
    /\ NewRows # <<>>
    /\ \E i \in 1..Len(invoices_delta) :
          \E d \in Range(invoices_delta[i].invoiceDetails) :
              \E r \in Range(base_rows) :
                  /\ r["_detail_key"] = DetailKey(d)
                  /\ r["dk_pn"] # d.digiKeyProductNumber

\* C7 (as claimed): the blob of a row whose product is not MCU-classified
\* holds every parameter of the product, the MCU-promoted names included; the
\* blob of a row whose product is MCU-classified holds every parameter but
\* the four MCU-promoted names.
C7_BlobRoundTrip ==
    pc = "assert_a" =>
        \A r \in Range(merged_rows) :
            LET prod == MatchedProduct(r) IN
            prod # NoneObj =>
                /\ Range(r["_other_dict"]) =
                      ParamPairs(prod, IF InMicrocontrollerTree(prod)
                                       THEN Range(MCU_PROMOTED_PARAM_TEXTS) ELSE {})
                /\ r["other_parameters"] = JsonDumps(r["_other_dict"])

\* The rows C8 is about: flagged new, their part number in the delta product
\* document only, their product in a Microcontrollers category.
DeltaOnlyMcuRows ==
    {r \in Range(merged_rows) :
        /\ r["_is_new"]
        /\ r["dk_pn"] \in DkKeysOfDoc(products_delta) \ DkKeysOfDoc(products_base)
        /\ InMicrocontrollerTree(MatchedProduct(r))}

\* C8 (as amended): the row of a delta-only line item whose part number is
\* only in the delta product set and whose product is in a Microcontrollers
\* category has the product's "Core Processor" parameter value as its
\* core_processor; it is non-empty when the product has such a parameter
\* with a non-empty value, and empty when it has none.
C8_DeltaMcuCoreProcessor ==
    pc = "assert_a" =>
        \A r \in DeltaOnlyMcuRows :
            r["core_processor"] = LastParam(MatchedProduct(r), "Core Processor")

\* C8 (as claimed): every such row has a non-empty core_processor.
C8_CoreProcessorNonEmpty ==
    pc = "assert_a" =>
        \A r \in DeltaOnlyMcuRows : r["core_processor"] # ""

\* A new row of a delta-only microcontroller whose category names the
\* microcontrollers below the top level, with its core processor filled in.
C8_Witness ==
    /\ pc = "assert_a"
    /\ \E r \in DeltaOnlyMcuRows :
          /\ r["core_processor"] = "ARM(R) Cortex(R)-M4"
          /\ ~ContainsMicrocontroller(MatchedProduct(r).category.name)

\* C9 (as claimed): the promoted columns are one contiguous block of the
\* resulting column list, in the mapping's order, immediately before the
\* anchor column when the anchor is in the post-drop column list and at the
\* end when it is not; the other remaining columns keep their order.
C9_PromotedBlockBeforeAnchor ==
    (pc = "mkdir" /\ schema_mutations # NoneObj
        /\ schema_mutations.promote_other_params # <<>>) =>
        \E k \in 0..Len(OtherColumns) :
            /\ schema_out = SubSeq(OtherColumns, 1, k) \o PromotedColumns
                              \o SubSeq(OtherColumns, k + 1, Len(OtherColumns))
            /\ IF schema_mutations.promoted_insert_before \in Range(PostDrop)
               THEN /\ k < Len(OtherColumns)
                    /\ OtherColumns[k + 1] = schema_mutations.promoted_insert_before
               ELSE k = Len(OtherColumns)

\* C4: in every run of run_pipeline no output file is written unless
\* discovery succeeded and checks A, B and C all passed, and a run ends with
\* all five output files written or none of them, never a proper non-empty
\* subset.
C4_AllOrNothing ==
    /\ written # {} =>
          /\ ~pairs.raised /\ ~csv_pair.raised
          /\ AssertAPasses /\ AssertBPasses /\ AssertCPasses
    /\ RunEnded => written \in {{}, AllOutputs}

\* The positions, in order, of the line items of a document set whose key
\* no earlier line item has.
FirstOccurrences(invoices_doc) ==
    LET keys == iter_detail_keys(invoices_doc)
    IN SelectSeq([i \in 1..Len(keys) |-> i],
                 LAMBDA i : \A j \in 1..(i - 1) : keys[j] # keys[i])

\* rows is the projection of invoices_doc with one row per distinct key, in
\* order of first occurrence, each row built from the first line item of
\* its key, and the row keys are the keys iter_detail_keys yields.
OneRowPerKey(rows, invoices_doc, new_detail_keys) ==
    LET items == LineItems(invoices_doc)
        keys == iter_detail_keys(invoices_doc)
        firsts == FirstOccurrences(invoices_doc)
    IN /\ Len(rows) = Cardinality(Range(keys))
       /\ Len(rows) = Len(firsts)
       /\ \A k \in 1..Len(rows) :
             LET order == items[firsts[k]][1]
                 d == items[firsts[k]][2]
             IN /\ rows[k]["_detail_key"] = keys[firsts[k]]
                /\ rows[k]["_detail_key"] = DetailKey(d)
                /\ rows[k]["description"] = GetD(d.description, "")
                /\ rows[k]["dk_pn"] = GetD(d.digiKeyProductNumber, "")
                /\ rows[k] = Row(order, d, keys[firsts[k]], prod_by_dk, new_detail_keys)
       /\ \A k, l \in 1..Len(rows) :
             k # l => rows[k]["_detail_key"] # rows[l]["_detail_key"]
       /\ RowKeys(rows) = Range(keys)

\* C11: for every invoice document set passed to build_rows the output has
\* exactly one row per distinct line-item identity key, the rows are in
\* order of first occurrence of their key, each row's fields come from the
\* first line item with that key, and the set of row keys is the set of
\* keys iter_detail_keys yields on the same input.
C11_OneRowPerKey ==
    pc = "assert_a" =>
        /\ OneRowPerKey(base_rows, invoices_base, {})
        /\ OneRowPerKey(merged_rows, MergedInvoices(invoices_base, invoices_delta),
                        delta_only_keys)

\* A projected document set in which a two-part key and a five-part key
\* each occur twice, on line items with different descriptions.
C11_Witness ==
    /\ pc = "assert_a"
    /\ LET merged == MergedInvoices(invoices_base, invoices_delta)
           items == LineItems(merged)
           keys == iter_detail_keys(merged)
       IN /\ \E i, j \in 1..Len(keys) :
                /\ i < j /\ keys[i] = keys[j] /\ Len(keys[i]) = 2
                /\ items[i][2].description # items[j][2].description
          /\ \E i, j \in 1..Len(keys) :
                /\ i < j /\ keys[i] = keys[j] /\ Len(keys[i]) = 5
                /\ items[i][2].description # items[j][2].description
          /\ Len(merged_rows) < Len(items)
          /\ Len(merged_rows) >= 2
          /\ Len(base_rows) < Len(LineItems(invoices_base))

\* C12: whenever discover_csv_pair returns without raising, the full and
\* mini paths it returns are two different files, for every listing of 2
\* or more CSV paths of which any may be unreadable.
C12_FullAndMiniDiffer ==
    pc = "load" => csv_pair.full # csv_pair.mini

\* C13 as stated: the output row of every base line item does not depend
\* on the delta product set: projecting the base invoices with the lookups
\* of two delta product sets gives rows equal on every column of the stable
\* output schema.
C13_RowsIndependentOfDelta ==
    pc = "done" =>
        /\ Len(rows_alt) = Len(base_rows)
        /\ \A i \in 1..Len(base_rows) : SameStableColumns(i)

\* C13: the output row of every base line item whose vendor part number a
\* base product carries, or neither delta product set carries, does not
\* depend on the delta product set; the two projections have the same
\* identity keys in the same order.
C13_BaseCarriedRowsIndependent ==
    pc = "done" =>
        /\ Len(rows_alt) = Len(base_rows)
        /\ \A i \in 1..Len(base_rows) :
              /\ rows_alt[i]["_detail_key"] = base_rows[i]["_detail_key"]
              /\ rows_alt[i]["dk_pn"] = base_rows[i]["dk_pn"]
              /\ (\/ base_rows[i]["dk_pn"] \in DkKeysOfDoc(products_base)
                  \/ base_rows[i]["dk_pn"] \notin EitherDeltaKeys)
                 => SameStableColumns(i)

\* Both runs are over, the delta product sets differ, and a base line item
\* has a part number that a base product and a delta product both carry.
C13_Witness ==
    /\ pc = "done"
    /\ products_delta # delta_alt
    /\ \E i \in 1..Len(base_rows) :
          /\ base_rows[i]["dk_pn"] \in DkKeysOfDoc(products_base)
          /\ base_rows[i]["dk_pn"] \in DkKeysOfDoc(products_delta)
          /\ base_rows[i]["dk_pn"] \notin DkKeysOfDoc(delta_alt)
          /\ base_rows[i]["category"] # ""

====
